---- MODULE Spec2Model ----
(***************************************************************************)
(* Model of the IntelliCare crisis line: the Twilio segment webhook        *)
(* (calls/ai_service.py), the background risk assessment                   *)
(* (calls/risk_assessment.py) and the emergency alert service              *)
(* (calls/emergency.py), over one Call row, its RecordingChunk rows and    *)
(* its EmergencyContact rows.                                              *)
(*                                                                         *)
(* Django's Model.save() writes every column of the in-memory object, so   *)
(* each worker keeps the object it loaded (callObj / obj) and a save       *)
(* replaces the whole row with that object.                                *)
(***************************************************************************)
EXTENDS Integers, Sequences, FiniteSets, TLC

\* ---------------------------------------------------------------- bounds
MaxNotifications == 2
MaxAssessments == 2
MaxChunks == 2
MaxAlerts == 1
MaxClock == 1

\* Every Record verb names two callbacks, `action` and
\* `recording_status_callback`, and urls.py routes both to
\* twilio_recording_webhook: one webhook worker for each.
Callbacks == <<"action", "recording_status_callback">>
Handlers == 1..Len(Callbacks)

\* One daemon thread per started assessment, numbered in order of start.
RiskThreads == 1..MaxAssessments

\* ------------------------------------------------------------- vocabulary
NULL == "null"

\* Representative caller utterances, one per outcome of the keyword lists.
Texts == {"hello how are you",
          "I lost my job and feel hopeless",
          "I keep neglecting myself",
          "I want to die",
          "I have a plan to end my life tonight"}

RiskLevels == {"no_risk", "low_risk", "medium_risk", "high_risk", "alert"}

AutoContactType == "Crisis Team Alert"
SampleContacts == <<"Crisis Hotline Supervisor", "Emergency Services",
                    "Mental Health Crisis Team">>

VARIABLES
    call,            \* the Call row
    chunks,          \* RecordingChunk rows, in creation order (index = id)
    contacts,        \* EmergencyContact rows of the call, in creation order
    fallbackExists,  \* outputs/sample_response.wav is available
    hst,             \* per webhook worker: handle_recording_complete frame
    rst,             \* per background thread: _process_risk frame
    nNotifications,  \* segment notifications received so far
    nAssessments,    \* background assessments started so far
    nAlerts,         \* alert_emergency_contacts runs so far
    highRiskCalls,   \* invocations of handle_high_risk_call so far
    alert_results,   \* what the last alert_emergency_contacts returned
    history,         \* sarv.py: the conversation list carried across turns
    full_context,    \* sarv.py: the context of the latest completion call
    memoryLog,       \* sarv.py: per turn, whether the completion returned and
                     \* memory.add was called; of the latest turn, also what
                     \* the memory did and which text was returned
    client,          \* sarv.py: the SarvamAI client was initialised
    memory,          \* sarv.py: the long-term memory was initialised
    exchange,        \* guard rails: the turn being answered
    guardTasks,      \* guard rails: the background validations started
    callRows,        \* the Call table with the columns of the call webhooks
    response,        \* the last request of a call webhook and its response
    USE_TZ,          \* settings.USE_TZ: stored datetimes are timezone-aware
    service,         \* a RiskAssessmentService: its model and loading flags
    assessment,      \* the last assess_risk call: text, result, model used
    clock,           \* datetime.now(), in seconds
    files,           \* the audio files of the daily directory, by path
    metas,           \* the md5_hash of their .meta.json companions
    stores,          \* store_recording_locally: the frame of each worker
    stored,          \* the metadata the finished stores returned
    waiter,          \* _wait_for_file_creation: the frame of the waiting
    artifact,        \* the response file it waits for: absent, empty, written
    closing          \* conversation_should_end: a reply and the answer

\* The variables of the pipeline over the database rows.
pipelineVars == <<call, chunks, contacts, fallbackExists, hst, rst,
                  nNotifications, nAssessments, nAlerts, highRiskCalls,
                  alert_results>>

\* The paths store_recording_locally can write in the modelled time:
\* call_<timestamp>_<first 8 characters of the call id>.wav
Paths == [timestamp : 0..MaxClock, call_id : {"1f0c2a9e", "7b3d5e11"}]

\* The variables of the units checked on their own.
llmVars == <<history, full_context, memoryLog, client, memory>>
guardVars == <<exchange, guardTasks>>
callVars == <<callRows, response, USE_TZ>>
assessVars == <<service, assessment>>
storageVars == <<clock, files, metas, stores, stored>>
helperVars == <<waiter, artifact, closing>>
unitVars == <<llmVars, guardVars, callVars, assessVars, storageVars, helperVars>>

vars == <<call, chunks, contacts, fallbackExists, hst, rst,
          nNotifications, nAssessments, nAlerts, highRiskCalls,
          alert_results, unitVars>>

\* ------------------------------------------------------------------ rows
NoCall == [exists |-> FALSE, status |-> NULL,
           highest_risk_level |-> NULL, highest_risk_category |-> NULL,
           conversation_state |-> <<>>, transcription |-> 0]

NewCall == [exists |-> TRUE, status |-> "in_progress",
            highest_risk_level |-> NULL, highest_risk_category |-> NULL,
            conversation_state |-> <<>>, transcription |-> 0]

NewChunk(n) == [chunk_number |-> n, processed |-> FALSE,
                response_audio_url |-> NULL, response_played |-> FALSE,
                transcription |-> NULL, risk_processed |-> FALSE,
                risk_level |-> NULL, risk_category |-> NULL]

NoChunk == NewChunk(0)

\* alert_results as alert_emergency_contacts builds it before the loop.
NoAlertResults == [contacts_attempted |-> 0, contacts_successful |-> 0,
                   contacts_failed |-> 0, alerts_sent |-> <<>>,
                   errors |-> <<>>]

IdleHandler == [pc |-> "idle", url |-> FALSE, callObj |-> NoCall,
                chunk_number |-> 0, chunk |-> 0, obj |-> NoChunk,
                conversation |-> <<>>, outcome |-> NULL, audio |-> NULL,
                resp |-> <<>>, llm |-> FALSE, error |-> NULL]

Verbs(resp) == {resp[i] : i \in 1..Len(resp)}

\* The frame of a worker whose handler is about to return: the response and
\* what the run came to (with the risk level the call had when it was
\* loaded); the other loaded data is gone.
Returned(frame, resp, error) ==
    [IdleHandler EXCEPT !.pc = "done", !.url = frame.url,
                        !.chunk = frame.chunk, !.outcome = frame.outcome,
                        !.audio = frame.audio, !.llm = frame.llm,
                        !.callObj = [NoCall EXCEPT
                            !.highest_risk_level =
                                frame.callObj.highest_risk_level],
                        !.resp = resp, !.error = error]

IdleThread == [pc |-> "idle", chunk |-> 0, obj |-> NoChunk,
               callObj |-> NoCall, level |-> NULL, category |-> NULL,
               exists |-> FALSE]

\* The frame of a daemon thread whose _process_risk has returned.
ThreadEnded(frame) == [IdleThread EXCEPT !.pc = "done",
                                         !.chunk = frame.chunk]

\* Nobody waits for a response file and no reply is being examined.
HelpersIdle ==
    /\ waiter = [pc |-> "idle", elapsed |-> 0, result |-> NULL]
    /\ artifact = "absent"
    /\ closing = [response |-> <<>>, is_str |-> TRUE, asked |-> FALSE,
                  result |-> FALSE]

\* ------------------------------------------------------------------ Init
UnitsIdle ==
    /\ history = <<>>
    /\ full_context = <<>>
    /\ memoryLog = <<>>
    /\ client = TRUE
    /\ memory = FALSE
    /\ exchange = [pc |-> "idle", user_input |-> NULL,
                   assistant_response |-> NULL, audio |-> NULL,
                   instruction |-> NULL]
    /\ guardTasks = <<>>
    /\ callRows = <<>>
    /\ response = [handler |-> NULL, request |-> NULL, status |-> NULL,
                   verbs |-> <<>>]
    /\ USE_TZ = FALSE
    /\ service = [model |-> FALSE, model_loading |-> FALSE,
                  model_load_attempted |-> FALSE]
    /\ assessment = [text |-> NULL, result |-> NULL, used_model |-> FALSE]
    /\ clock = 0
    /\ files = [path \in Paths |-> NULL]
    /\ metas = [path \in Paths |-> <<>>]
    /\ stores = [w \in Handlers |-> [pc |-> "idle"]]
    /\ stored = {}
    /\ HelpersIdle

InitPipeline ==
    /\ call = NoCall
    /\ chunks = <<>>
    /\ contacts = <<>>
    /\ fallbackExists \in BOOLEAN
    /\ hst = [h \in Handlers |-> IdleHandler]
    /\ rst = [t \in RiskThreads |-> IdleThread]
    /\ nNotifications = 0
    /\ nAssessments = 0
    /\ nAlerts = 0
    /\ highRiskCalls = 0
    /\ alert_results = NoAlertResults

Init == InitPipeline /\ UnitsIdle

\* ------------------------------------------------- handle_incoming_call
IncomingCall ==
    /\ ~call.exists
    /\ call' = NewCall
    /\ UNCHANGED <<chunks, contacts, fallbackExists, hst, rst,
                   nNotifications, nAssessments, nAlerts, highRiskCalls>>
    /\ UNCHANGED <<alert_results, unitVars>>

\* ------------------------------------------- handle_recording_complete
\* _get_fallback_response: the sample clip's URL, or None when the clip is
\* in neither outputs directory.
GetFallbackResponse == IF fallbackExists THEN "sample_response.wav" ELSE NULL

\* _get_conversation_state: the stored history, or a fresh history holding
\* the system prompt when the stored one is empty.
GetConversationState ==
    IF call.exists /\ call.conversation_state # <<>>
    THEN call.conversation_state
    ELSE <<"system">>

OnException_NoRecord(resp) == resp

\* The two `except` clauses of handle_recording_complete: the response built
\* so far gets a Record verb and is returned.
OnException(resp) == Append(resp, "Record")

\* Twilio posts RecordingUrl (possibly empty) to /twilio/recording/<id>/.
RecordingComplete(h, hasUrl) ==
    /\ hst[h].pc = "idle"
    /\ \A g \in Handlers : g < h => hst[g].pc # "idle"
    /\ nNotifications < MaxNotifications
    /\ nNotifications' = nNotifications + 1
    /\ hst' = [hst EXCEPT ![h] = [IdleHandler EXCEPT !.pc = "get_call",
                                                      !.url = hasUrl]]
    /\ UNCHANGED <<call, chunks, contacts, fallbackExists, rst,
                   nAssessments, nAlerts, highRiskCalls>>
    /\ UNCHANGED <<alert_results, unitVars>>

\* call = Call.objects.get(id=call_id)
H_GetCall(h) ==
    /\ hst[h].pc = "get_call"
    /\ IF call.exists
       THEN hst' = [hst EXCEPT ![h].callObj = call, ![h].pc = "count"]
       ELSE hst' = [hst EXCEPT ![h] = Returned(@, OnException(@.resp),
                                               "DoesNotExist")]
    /\ UNCHANGED <<call, chunks, contacts, fallbackExists, rst,
                   nNotifications, nAssessments, nAlerts, highRiskCalls>>
    /\ UNCHANGED <<alert_results, unitVars>>

\* chunk_number = call.recording_chunks.count() + 1
NextChunkNumber == Len(chunks) + 1

H_Count(h) ==
    /\ hst[h].pc = "count"
    /\ hst' = [hst EXCEPT ![h].chunk_number = NextChunkNumber,
                           ![h].pc = IF hst[h].url THEN "create"
                                                   ELSE "download"]
    /\ UNCHANGED <<call, chunks, contacts, fallbackExists, rst,
                   nNotifications, nAssessments, nAlerts, highRiskCalls>>
    /\ UNCHANGED <<alert_results, unitVars>>

\* unique_together = ['call', 'chunk_number']
ChunkNumberTaken(n) == \E i \in 1..Len(chunks) : chunks[i].chunk_number = n

H_Create_Overwrites(h) ==
    /\ hst[h].pc = "create"
    /\ IF ChunkNumberTaken(hst[h].chunk_number)
       THEN /\ hst' = [hst EXCEPT ![h] = Returned(@, OnException(@.resp),
                                                  "IntegrityError")]
            /\ chunks' = [i \in 1..Len(chunks) |->
                             IF chunks[i].chunk_number = hst[h].chunk_number
                             THEN NewChunk(hst[h].chunk_number)
                             ELSE chunks[i]]
            /\ call' = hst[h].callObj
       ELSE /\ chunks' = Append(chunks, NewChunk(hst[h].chunk_number))
            /\ call' = hst[h].callObj
            /\ hst' = [hst EXCEPT ![h].chunk = Len(chunks) + 1,
                                  ![h].obj = NewChunk(hst[h].chunk_number),
                                  ![h].pc = "download"]
    /\ UNCHANGED <<contacts, fallbackExists, rst,
                   nNotifications, nAssessments, nAlerts, highRiskCalls>>
    /\ UNCHANGED <<alert_results, unitVars>>

\* store_recording_locally, recording_chunks.create(...), call.save()
H_Create(h) ==
    /\ hst[h].pc = "create"
    /\ IF ChunkNumberTaken(hst[h].chunk_number)
       THEN /\ hst' = [hst EXCEPT ![h] = Returned(@, OnException(@.resp),
                                                  "IntegrityError")]
            /\ UNCHANGED <<call, chunks>>
       ELSE /\ chunks' = Append(chunks, NewChunk(hst[h].chunk_number))
            /\ call' = hst[h].callObj
            /\ hst' = [hst EXCEPT ![h].chunk = Len(chunks) + 1,
                                  ![h].obj = NewChunk(hst[h].chunk_number),
                                  ![h].pc = "download"]
    /\ UNCHANGED <<contacts, fallbackExists, rst,
                   nNotifications, nAssessments, nAlerts, highRiskCalls>>
    /\ UNCHANGED <<alert_results, unitVars>>

H_Download_Advances(h, ok) ==
    /\ hst[h].pc = "download"
    /\ IF hst[h].url /\ ok
       THEN hst' = [hst EXCEPT ![h].conversation = GetConversationState,
                               ![h].pc = "sarvam"]
       ELSE hst' = [hst EXCEPT ![h].outcome = IF hst[h].url
                                              THEN "download_failed"
                                              ELSE "no_url",
                               ![h].llm = TRUE,
                               ![h].audio = "response.wav",
                               ![h].pc = "respond"]
    /\ UNCHANGED <<call, chunks, contacts, fallbackExists, rst,
                   nNotifications, nAssessments, nAlerts, highRiskCalls>>
    /\ UNCHANGED <<alert_results, unitVars>>

\* wait_for_ai_response up to _get_conversation_state: no URL or a failed
\* download goes straight to the fallback clip.
H_Download(h, ok) ==
    /\ hst[h].pc = "download"
    /\ IF hst[h].url /\ ok
       THEN hst' = [hst EXCEPT ![h].conversation = GetConversationState,
                               ![h].pc = "sarvam"]
       ELSE hst' = [hst EXCEPT ![h].outcome = IF hst[h].url
                                              THEN "download_failed"
                                              ELSE "no_url",
                               ![h].audio = GetFallbackResponse,
                               ![h].pc = "respond"]
    /\ UNCHANGED <<call, chunks, contacts, fallbackExists, rst,
                   nNotifications, nAssessments, nAlerts, highRiskCalls>>
    /\ UNCHANGED <<alert_results, unitVars>>

\* What process_single_audio_input and the polling can come to; on
\* "ok_should_end" all went well and result["should_end"] is true.
Outcomes == {"empty_transcript", "synthesis_failed", "poll_timeout",
             "media_copy_failed", "ok", "ok_should_end"}

\* query_llm appends the caller's turn and the reply to the history.
QueryLlm(conversation) == conversation \o <<"user", "assistant">>

\* _save_conversation_state: the history replaces the stored one and its
\* last user message is appended to the call's transcription.
SaveConversationState(c, conversation) ==
    IF c.exists
    THEN [c EXCEPT !.conversation_state = conversation,
                   !.transcription =
                       IF \E i \in 1..Len(conversation) :
                              conversation[i] = "user"
                       THEN @ + 1 ELSE @]
    ELSE c

\* _process_with_sarvam_ai and the rest of wait_for_ai_response.
H_Sarvam(h, outcome) ==
    /\ hst[h].pc = "sarvam"
    /\ outcome \in Outcomes
    /\ LET called == outcome # "empty_transcript"
           conv   == IF called THEN QueryLlm(hst[h].conversation)
                               ELSE hst[h].conversation
           saved  == outcome \in {"ok", "ok_should_end",
                                   "media_copy_failed"}
       IN /\ call' = IF saved THEN SaveConversationState(call, conv)
                              ELSE call
          /\ hst' = [hst EXCEPT ![h].outcome = outcome,
                                ![h].llm = called,
                                ![h].conversation = conv,
                                ![h].audio = IF outcome
                                                  \in {"ok", "ok_should_end"}
                                             THEN "response.wav"
                                             ELSE GetFallbackResponse,
                                ![h].pc = "respond"]
    /\ UNCHANGED <<chunks, contacts, fallbackExists, rst,
                   nNotifications, nAssessments, nAlerts, highRiskCalls>>
    /\ UNCHANGED <<alert_results, unitVars>>

H_MarkProcessed_NoFlag(h) ==
    /\ hst[h].pc = "respond"
    /\ IF hst[h].audio # NULL
       THEN LET o == [hst[h].obj EXCEPT
                         !.response_audio_url = hst[h].audio]
            IN IF hst[h].chunk # 0
               THEN /\ chunks' = [chunks EXCEPT ![hst[h].chunk] = o]
                    /\ hst' = [hst EXCEPT ![h].obj = o,
                                          ![h].resp = Append(@, "Play"),
                                          ![h].pc = "mark_played"]
               ELSE /\ chunks' = chunks
                    /\ hst' = [hst EXCEPT ![h].resp = Append(@, "Play"),
                                          ![h].pc = "mark_played"]
       ELSE /\ chunks' = chunks
            /\ hst' = [hst EXCEPT ![h] = Returned(@, Append(@.resp, "Record"),
                                                  NULL)]
    /\ UNCHANGED <<call, contacts, fallbackExists, rst,
                   nNotifications, nAssessments, nAlerts, highRiskCalls>>
    /\ UNCHANGED <<alert_results, unitVars>>

\* if response_audio_url: chunk.processed = True; save(); response.play(url)
\* else: response.record(...)
H_MarkProcessed(h) ==
    /\ hst[h].pc = "respond"
    /\ IF hst[h].audio # NULL
       THEN LET o == [hst[h].obj EXCEPT
                         !.response_audio_url = hst[h].audio,
                         !.processed = TRUE]
            IN IF hst[h].chunk # 0
               THEN /\ chunks' = [chunks EXCEPT ![hst[h].chunk] = o]
                    /\ hst' = [hst EXCEPT ![h].obj = o,
                                          ![h].resp = Append(@, "Play"),
                                          ![h].pc = "mark_played"]
               ELSE /\ chunks' = chunks
                    /\ hst' = [hst EXCEPT ![h].resp = Append(@, "Play"),
                                          ![h].pc = "mark_played"]
       ELSE /\ chunks' = chunks
            /\ hst' = [hst EXCEPT ![h] = Returned(@, Append(@.resp, "Record"),
                                                  NULL)]
    /\ UNCHANGED <<call, contacts, fallbackExists, rst,
                   nNotifications, nAssessments, nAlerts, highRiskCalls>>
    /\ UNCHANGED <<alert_results, unitVars>>

\* chunk.response_played = True; save(); response.record(...)
H_MarkPlayed(h) ==
    /\ hst[h].pc = "mark_played"
    /\ LET o == [hst[h].obj EXCEPT !.response_played = TRUE]
       IN IF hst[h].chunk # 0
          THEN /\ chunks' = [chunks EXCEPT ![hst[h].chunk] = o]
               /\ hst' = [hst EXCEPT ![h] = Returned(@, Append(@.resp,
                                                               "Record"),
                                                     NULL)]
          ELSE /\ chunks' = chunks
               /\ hst' = [hst EXCEPT ![h] = Returned(@, Append(@.resp,
                                                               "Record"),
                                                     NULL)]
    /\ UNCHANGED <<call, contacts, fallbackExists, rst,
                   nNotifications, nAssessments, nAlerts, highRiskCalls>>
    /\ UNCHANGED <<alert_results, unitVars>>

\* A database operation of the try block raises (connection lost, write
\* refused): `except Exception` adds a Record verb to the response.
DatabaseSteps == {"get_call", "count", "create", "respond", "mark_played"}

H_Exception(h) ==
    /\ hst[h].pc \in DatabaseSteps
    /\ hst[h].pc = "respond" => hst[h].audio # NULL /\ hst[h].chunk # 0
    /\ hst[h].pc = "mark_played" => hst[h].chunk # 0
    /\ hst' = [hst EXCEPT ![h] = Returned(@, OnException(@.resp),
                                           "DatabaseError")]
    /\ UNCHANGED <<call, chunks, contacts, fallbackExists, rst,
                   nNotifications, nAssessments, nAlerts, highRiskCalls>>
    /\ UNCHANGED <<alert_results, unitVars>>

\* return HttpResponse(str(response), content_type='text/xml')
H_Return(h) ==
    /\ hst[h].pc = "done"
    /\ hst' = [hst EXCEPT ![h] = IdleHandler]
    /\ UNCHANGED <<call, chunks, contacts, fallbackExists, rst,
                   nNotifications, nAssessments, nAlerts, highRiskCalls>>
    /\ UNCHANGED <<alert_results, unitVars>>

\* ------------------------------------------------- RiskAssessmentService
\* Which keyword lists of _fallback_risk_assessment have a keyword in the
\* text: 'hopeless' (low), 'neglecting' (medium), 'want to die' (high),
\* 'plan to end' (alert) together with 'end my life' (high).
KeywordTiers(text) ==
    CASE text = "I lost my job and feel hopeless" -> {"low"}
      [] text = "I keep neglecting myself" -> {"medium"}
      [] text = "I want to die" -> {"high"}
      [] text = "I have a plan to end my life tonight" -> {"alert", "high"}
      [] OTHER -> {}

FallbackRiskAssessment_HighFirst(text) ==
    LET tiers == KeywordTiers(text)
    IN IF "high" \in tiers
       THEN [risk_category |-> "Previous attempt", risk_level |-> "high_risk"]
       ELSE IF "alert" \in tiers
       THEN [risk_category |-> "Suicidal planning", risk_level |-> "alert"]
       ELSE IF "medium" \in tiers
       THEN [risk_category |-> "Ability to take care of oneself",
             risk_level |-> "medium_risk"]
       ELSE IF "low" \in tiers
       THEN [risk_category |-> "Presence of a loved one",
             risk_level |-> "low_risk"]
       ELSE [risk_category |-> "Other", risk_level |-> "no_risk"]

\* _fallback_risk_assessment: the first list, from the most serious down,
\* that has a keyword in the text.
FallbackRiskAssessment(text) ==
    LET tiers == KeywordTiers(text)
    IN IF "alert" \in tiers
       THEN [risk_category |-> "Suicidal planning", risk_level |-> "alert"]
       ELSE IF "high" \in tiers
       THEN [risk_category |-> "Previous attempt", risk_level |-> "high_risk"]
       ELSE IF "medium" \in tiers
       THEN [risk_category |-> "Ability to take care of oneself",
             risk_level |-> "medium_risk"]
       ELSE IF "low" \in tiers
       THEN [risk_category |-> "Presence of a loved one",
             risk_level |-> "low_risk"]
       ELSE [risk_category |-> "Other", risk_level |-> "no_risk"]

\* get_risk_priority: priority_map.get(risk_level, 0)
get_risk_priority(risk_level) ==
    CASE risk_level = "no_risk" -> 0
      [] risk_level = "low_risk" -> 1
      [] risk_level = "medium_risk" -> 2
      [] risk_level = "high_risk" -> 3
      [] risk_level = "alert" -> 4
      [] OTHER -> 0

\* ------------------------------------------ process_chunk_risk_assessment
\* RecordingChunk.objects.create(call=..., chunk_number=n, transcription=...)
\* as the risk assessment command sets its chunks up; the integration
\* command creates them without a transcription.
CreateChunk(text) ==
    /\ call.exists
    /\ Len(chunks) < MaxChunks
    /\ text \in Texts \cup {NULL}
    /\ chunks' = Append(chunks, [NewChunk(NextChunkNumber) EXCEPT
                                    !.transcription = text])
    /\ UNCHANGED <<call, contacts, fallbackExists, hst, rst,
                   nNotifications, nAssessments, nAlerts, highRiskCalls>>
    /\ UNCHANGED <<alert_results, unitVars>>

\* thread = threading.Thread(target=_process_risk, daemon=True); start()
ProcessChunkRiskAssessment(t, c) ==
    /\ rst[t].pc = "idle"
    /\ t = nAssessments + 1
    /\ c \in 1..Len(chunks)
    /\ nAssessments' = nAssessments + 1
    /\ rst' = [rst EXCEPT ![t] = [IdleThread EXCEPT !.pc = "get_chunk",
                                                    !.chunk = c]]
    /\ UNCHANGED <<call, chunks, contacts, fallbackExists, hst,
                   nNotifications, nAlerts, highRiskCalls>>
    /\ UNCHANGED <<alert_results, unitVars>>

\* chunk = RecordingChunk.objects.get(id=chunk_id); the two skips.
R_GetChunk(t) ==
    /\ rst[t].pc = "get_chunk"
    /\ LET o == chunks[rst[t].chunk]
       IN IF o.risk_processed
          THEN /\ rst' = [rst EXCEPT ![t] = ThreadEnded(@)]
               /\ chunks' = chunks
          ELSE IF o.transcription = NULL
          THEN /\ rst' = [rst EXCEPT ![t] = ThreadEnded(@)]
               /\ chunks' = [chunks EXCEPT ![rst[t].chunk] =
                                              [o EXCEPT
                                                  !.risk_processed = TRUE]]
          ELSE /\ rst' = [rst EXCEPT ![t].obj = o, ![t].pc = "assess"]
               /\ chunks' = chunks
    /\ UNCHANGED <<call, contacts, fallbackExists, hst,
                   nNotifications, nAssessments, nAlerts, highRiskCalls>>
    /\ UNCHANGED <<alert_results, unitVars>>

\* result = risk_service.assess_risk(chunk.transcription); chunk.save()
R_Assess(t) ==
    /\ rst[t].pc = "assess"
    /\ LET result == FallbackRiskAssessment(rst[t].obj.transcription)
           o == [rst[t].obj EXCEPT
                    !.risk_category = result.risk_category,
                    !.risk_level = result.risk_level,
                    !.risk_processed = TRUE]
       IN /\ chunks' = [chunks EXCEPT ![rst[t].chunk] = o]
          /\ rst' = [rst EXCEPT ![t].obj = o, ![t].pc = "update_get"]
    /\ UNCHANGED <<call, contacts, fallbackExists, hst,
                   nNotifications, nAssessments, nAlerts, highRiskCalls>>
    /\ UNCHANGED <<alert_results, unitVars>>

R_Exception_Surfaces(t) ==
    /\ rst[t].pc \notin {"idle", "done", "raised"}
    /\ rst' = [rst EXCEPT ![t] = [ThreadEnded(@) EXCEPT !.pc = "raised"]]
    /\ hst' = [h \in Handlers |->
                  IF hst[h].pc \in {"idle", "done"} THEN hst[h]
                  ELSE Returned(hst[h], <<>>, "Exception")]
    /\ UNCHANGED <<call, chunks, contacts, fallbackExists,
                   nNotifications, nAssessments, nAlerts, highRiskCalls>>
    /\ UNCHANGED <<alert_results, unitVars>>

\* except Exception as e: logger.error(...): whatever is raised while the
\* chunk is read, classified or saved, or in update_call_highest_risk, is
\* logged by the thread, which ends.
R_Exception(t) ==
    /\ rst[t].pc \notin {"idle", "done", "raised"}
    /\ rst' = [rst EXCEPT ![t] = [ThreadEnded(@) EXCEPT !.pc = "raised"]]
    /\ UNCHANGED <<call, chunks, contacts, fallbackExists, hst,
                   nNotifications, nAssessments, nAlerts, highRiskCalls>>
    /\ UNCHANGED <<alert_results, unitVars>>

\* ------------------------------------------------ update_call_highest_risk
\* call = Call.objects.get(id=call_id)
U_GetCall(t) ==
    /\ rst[t].pc = "update_get"
    /\ IF call.exists
       THEN rst' = [rst EXCEPT ![t].callObj = call, ![t].pc = "update_query"]
       ELSE rst' = [rst EXCEPT ![t] = ThreadEnded(@)]
    /\ UNCHANGED <<call, chunks, contacts, fallbackExists, hst,
                   nNotifications, nAssessments, nAlerts, highRiskCalls>>
    /\ UNCHANGED <<alert_results, unitVars>>

\* RecordingChunk.objects.filter(call=call, risk_processed=True,
\*                               risk_level__isnull=False)
AssessedChunks(rows) ==
    SelectSeq(rows, LAMBDA r : r.risk_processed /\ r.risk_level # NULL)

\* The loop over the chunks, in chunk order, keeping the first chunk whose
\* priority is strictly above the best so far.
RECURSIVE ScanHighest(_, _, _)
ScanHighest(rows, i, best) ==
    IF i > Len(rows) THEN best
    ELSE LET priority == get_risk_priority(rows[i].risk_level)
         IN IF priority > best.priority
            THEN ScanHighest(rows, i + 1,
                             [priority |-> priority,
                              level |-> rows[i].risk_level,
                              category |-> rows[i].risk_category])
            ELSE ScanHighest(rows, i + 1, best)

HighestRisk_LatestChunk(rows) ==
    [priority |-> get_risk_priority(rows[Len(rows)].risk_level),
     level |-> rows[Len(rows)].risk_level,
     category |-> rows[Len(rows)].risk_category]

HighestRisk(rows) ==
    ScanHighest(rows, 1, [priority |-> 0, level |-> "no_risk",
                          category |-> NULL])

\* The chunk query and the comparison with the loaded call object.
U_Query(t) ==
    /\ rst[t].pc = "update_query"
    /\ LET rows == AssessedChunks(chunks)
           highest == HighestRisk(rows)
       IN IF rows = <<>>
          THEN rst' = [rst EXCEPT ![t] = ThreadEnded(@)]
          ELSE IF rst[t].callObj.highest_risk_level # highest.level
          THEN rst' = [rst EXCEPT ![t].level = highest.level,
                                  ![t].category = highest.category,
                                  ![t].pc = "update_write"]
          ELSE rst' = [rst EXCEPT ![t] = ThreadEnded(@)]
    /\ UNCHANGED <<call, chunks, contacts, fallbackExists, hst,
                   nNotifications, nAssessments, nAlerts, highRiskCalls>>
    /\ UNCHANGED <<alert_results, unitVars>>

\* if highest_risk_level in ['high_risk', 'alert']: handle_high_risk_call
NeedsEscalation(level) == level \in {"high_risk", "alert"}

\* call.highest_risk_level = ...; call.highest_risk_category = ...; save()
U_Write(t) ==
    /\ rst[t].pc = "update_write"
    /\ LET c == [rst[t].callObj EXCEPT
                    !.highest_risk_level = rst[t].level,
                    !.highest_risk_category = rst[t].category]
       IN /\ call' = c
          /\ IF NeedsEscalation(rst[t].level)
             THEN /\ rst' = [rst EXCEPT ![t].callObj = c,
                                        ![t].pc = "escalate_check"]
                  /\ highRiskCalls' = highRiskCalls + 1
             ELSE /\ rst' = [rst EXCEPT ![t] = ThreadEnded(@)]
                  /\ highRiskCalls' = highRiskCalls
    /\ UNCHANGED <<chunks, contacts, fallbackExists, hst,
                   nNotifications, nAssessments, nAlerts>>
    /\ UNCHANGED <<alert_results, unitVars>>

\* ---------------------------------------------------- handle_high_risk_call
\* if not call.emergency_contacts.exists():
E_Check(t) ==
    /\ rst[t].pc = "escalate_check"
    /\ rst' = [rst EXCEPT ![t].exists = (contacts # <<>>),
                          ![t].pc = "escalate_create"]
    /\ UNCHANGED <<call, chunks, contacts, fallbackExists, hst,
                   nNotifications, nAssessments, nAlerts, highRiskCalls>>
    /\ UNCHANGED <<alert_results, unitVars>>

E_Create_EndsCall(t) ==
    /\ rst[t].pc = "escalate_create"
    /\ contacts' = IF rst[t].exists THEN contacts
                   ELSE Append(contacts,
                               [contact_type |-> AutoContactType,
                                contact_info |->
                                    rst[t].callObj.highest_risk_level,
                                contacted |-> FALSE])
    /\ call' = [call EXCEPT !.status = "completed"]
    /\ rst' = [rst EXCEPT ![t] = ThreadEnded(@)]
    /\ UNCHANGED <<chunks, fallbackExists, hst,
                   nNotifications, nAssessments, nAlerts, highRiskCalls>>
    /\ UNCHANGED <<alert_results, unitVars>>

\*     EmergencyContact.objects.create(call=call,
\*         contact_type='Crisis Team Alert', ..., contacted=False)
E_Create(t) ==
    /\ rst[t].pc = "escalate_create"
    /\ contacts' = IF rst[t].exists THEN contacts
                   ELSE Append(contacts,
                               [contact_type |-> AutoContactType,
                                contact_info |->
                                    rst[t].callObj.highest_risk_level,
                                contacted |-> FALSE])
    /\ rst' = [rst EXCEPT ![t] = ThreadEnded(@)]
    /\ UNCHANGED <<call, chunks, fallbackExists, hst,
                   nNotifications, nAssessments, nAlerts, highRiskCalls>>
    /\ UNCHANGED <<alert_results, unitVars>>

\* ---------------------------------------------------- twilio_status_webhook
\* CallStatus 'completed' -> completed; failed, busy, no-answer, canceled
\* -> failed; call.save().  Twilio reports the end of a call once.
StatusWebhook(status) ==
    /\ call.exists
    /\ call.status = "in_progress"
    /\ status \in {"completed", "failed"}
    /\ call' = [call EXCEPT !.status = status]
    /\ UNCHANGED <<chunks, contacts, fallbackExists, hst, rst,
                   nNotifications, nAssessments, nAlerts, highRiskCalls>>
    /\ UNCHANGED <<alert_results, unitVars>>

\* ------------------------------------------------- alert_emergency_contacts
\* _get_database_emergency_contacts: every EmergencyContact row of the call,
\* its contact_type as the name and its contact_info as the phone.
DatabaseContacts ==
    [i \in 1..Len(contacts) |-> [name |-> contacts[i].contact_type,
                                 phone |-> contacts[i].contact_info]]

\* self.sample_emergency_contacts
SampleEmergencyContacts ==
    [i \in 1..Len(SampleContacts) |-> [name |-> SampleContacts[i],
                                       phone |-> SampleContacts[i]]]

\* _record_emergency_contact_alert: get_or_create on (call, contact_type,
\* contact_info); an existing row is marked contacted, several matching rows
\* raise MultipleObjectsReturned, which is logged and dropped.
RecordEmergencyContactAlert(rows, contact) ==
    LET matches == {i \in 1..Len(rows) :
                       /\ rows[i].contact_type = contact.name
                       /\ rows[i].contact_info = contact.phone}
    IN IF matches = {}
       THEN Append(rows, [contact_type |-> contact.name,
                          contact_info |-> contact.phone,
                          contacted |-> TRUE])
       ELSE IF Cardinality(matches) = 1
       THEN [i \in 1..Len(rows) |->
                IF i \in matches THEN [rows[i] EXCEPT !.contacted = TRUE]
                                 ELSE rows[i]]
       ELSE rows

\* The loop over all_contacts; `reached` holds the positions whose voice
\* alert succeeds.
RECURSIVE SendAlerts(_, _, _, _)
SendAlerts(rows, all, i, reached) ==
    IF i > Len(all) THEN rows
    ELSE SendAlerts(IF i \in reached
                    THEN RecordEmergencyContactAlert(rows, all[i])
                    ELSE rows,
                    all, i + 1, reached)

Attempt_FailureCountedTwice(results, contact, success) ==
    IF success
    THEN [results EXCEPT !.contacts_attempted = @ + 1,
                         !.contacts_successful = @ + 1,
                         !.alerts_sent = Append(@, contact)]
    ELSE [results EXCEPT !.contacts_attempted = @ + 1,
                         !.contacts_failed = @ + 2,
                         !.errors = Append(@, contact.name)]

\* The body of the loop for one contact: the attempt is counted, then a
\* voice alert that succeeds is counted and listed in alerts_sent, and one
\* that fails or raises is counted and listed in errors.
Attempt(results, contact, success) ==
    IF success
    THEN [results EXCEPT !.contacts_attempted = @ + 1,
                         !.contacts_successful = @ + 1,
                         !.alerts_sent = Append(@, contact)]
    ELSE [results EXCEPT !.contacts_attempted = @ + 1,
                         !.contacts_failed = @ + 1,
                         !.errors = Append(@, contact.name)]

AlertLoop_StopsAtFailure(all, i, reached, results) ==
    LET failed == {k \in i..Len(all) : k \notin reached}
        last == IF failed = {} THEN Len(all)
                ELSE CHOOSE k \in failed : \A j \in failed : k <= j
        sent == IF failed = {} THEN last - i + 1 ELSE last - i
    IN [contacts_attempted |-> results.contacts_attempted + (last - i + 1),
        contacts_successful |-> results.contacts_successful + sent,
        contacts_failed |-> results.contacts_failed
                              + (IF failed = {} THEN 0 ELSE 1),
        alerts_sent |-> results.alerts_sent
                          \o [k \in 1..sent |-> all[i + k - 1]],
        errors |-> IF failed = {} THEN results.errors
                   ELSE Append(results.errors, all[last].name)]

\* The counters of the loop: every contact is attempted; a voice alert that
\* succeeds goes to alerts_sent, one that fails or raises to errors.
RECURSIVE AlertLoop(_, _, _, _)
AlertLoop(all, i, reached, results) ==
    IF i > Len(all) THEN results
    ELSE AlertLoop(all, i + 1, reached,
                   Attempt(results, all[i], i \in reached))

\* alert_emergency_for_critical_risk(call_id)
AlertEmergencyContacts(reached) ==
    /\ call.exists
    /\ nAlerts < MaxAlerts
    /\ LET all == DatabaseContacts \o SampleEmergencyContacts
       IN /\ reached \subseteq 1..Len(all)
          /\ contacts' = SendAlerts(contacts, all, 1, reached)
          /\ alert_results' = AlertLoop(all, 1, reached, NoAlertResults)
    /\ nAlerts' = nAlerts + 1
    /\ UNCHANGED <<call, chunks, fallbackExists, hst, rst,
                   nNotifications, nAssessments, highRiskCalls>>
    /\ UNCHANGED unitVars

\* ------------------------------------------------------ sarv.py: query_llm
TARGET_CONTEXT_LIMIT == 125000

\* len(system_prompt), and len("{memories_str}") inside it.
SystemPromptChars == 1685
PlaceholderChars == 14

MaxTurns == 3
MaxPieces == 3

\* Lengths, in characters, of a caller's turn and of a reply: short, a
\* third of the budget and more, and over the whole budget.
UserChars == {40, 200000, 500004}
ReplyChars == {40, 200000}

\* What memory.search comes to: it is not called without a memory; else it
\* finds memories, finds none, or raises.
Searches == IF memory THEN {"found", "empty", "raises"} ELSE {"none"}

\* len("No memories available")
NoMemoriesChars == 21

\* len(memories_str): the lines of the memories found, "" when there are
\* none or no memory, "No memories available" after a failed search.
MemoriesChars(search) ==
    CASE search = "found" -> 300
      [] search = "raises" -> NoMemoriesChars
      [] OTHER -> 0

\* count_tokens without a tokenizer: len(text) // 4
count_tokens(chars) == chars \div 4

RECURSIVE count_message_tokens(_)
count_message_tokens(messages) ==
    IF messages = <<>> THEN 0
    ELSE count_tokens(Head(messages).content)
         + count_message_tokens(Tail(messages))

\* A message: its role, the length of its content, the turn it belongs to.
Message(role, chars, turn) == [role |-> role, content |-> chars,
                              turn |-> turn]

\* [{"role": "system", "content": system_prompt}] of _get_conversation_state
StoredSystemMessage == Message("system", SystemPromptChars, 0)

\* system_msg: system_prompt.format(memories_str=memories_str)
SystemMsg(memories, turn) ==
    Message("system", SystemPromptChars - PlaceholderChars + memories, turn)

Trim_Once(system_msg, conversation) ==
    IF /\ count_message_tokens(<<system_msg>> \o conversation)
              > TARGET_CONTEXT_LIMIT
       /\ Len(conversation) >= 2
    THEN SubSeq(conversation, 3, Len(conversation))
    ELSE conversation

\* while count_message_tokens(full_context) > TARGET_CONTEXT_LIMIT:
\*     if len(conversation) >= 2: pop(0); pop(0)  else: break
RECURSIVE Trim(_, _)
Trim(system_msg, conversation) ==
    IF /\ count_message_tokens(<<system_msg>> \o conversation)
              > TARGET_CONTEXT_LIMIT
       /\ Len(conversation) >= 2
    THEN Trim(system_msg, SubSeq(conversation, 3, Len(conversation)))
    ELSE conversation

query_llm_AddUncaught(conversation, user_input, search, reply, ok, add_ok, turn) ==
    IF ~client
    THEN [full_context |-> <<>>, conversation |-> conversation,
          memory_add |-> FALSE, ok |-> FALSE, reply |-> "unavailable"]
    ELSE LET appended   == Append(conversation,
                                  Message("user", user_input, turn))
             system_msg == SystemMsg(MemoriesChars(search), turn)
             trimmed    == Trim(system_msg, appended)
             context    == <<system_msg>> \o trimmed
             add        == ok /\ memory /\ Len(context) % 2 = 0
         IN [full_context |-> context,
             conversation |-> IF ok
                              THEN Append(trimmed,
                                          Message("assistant", reply, turn))
                              ELSE trimmed,
             memory_add |-> add,
             ok |-> ok,
             reply |-> IF ok /\ ~(add /\ ~add_ok)
                       THEN "model" ELSE "apology"]

\* query_llm(conversation, user_input): the context sent, the conversation
\* returned, whether memory.add was called and which text is returned (the
\* model's reply, the apology of the except clause, or the notice that the
\* service is unavailable).  `search` is what memory.search comes to, `ok`
\* whether the completion call returned, `add_ok` whether memory.add does:
\* an exception of memory.search or of memory.add is logged where it is
\* raised.
query_llm(conversation, user_input, search, reply, ok, add_ok, turn) ==
    IF ~client
    THEN [full_context |-> <<>>, conversation |-> conversation,
          memory_add |-> FALSE, ok |-> FALSE, reply |-> "unavailable"]
    ELSE LET appended   == Append(conversation,
                                  Message("user", user_input, turn))
             system_msg == SystemMsg(MemoriesChars(search), turn)
             trimmed    == Trim(system_msg, appended)
             context    == <<system_msg>> \o trimmed
             add        == ok /\ memory /\ Len(context) % 2 = 0
         IN [full_context |-> context,
             conversation |-> IF ok
                              THEN Append(trimmed,
                                          Message("assistant", reply, turn))
                              ELSE trimmed,
             memory_add |-> add,
             ok |-> ok,
             reply |-> IF ok THEN "model" ELSE "apology"]

\* One turn of a call: process_single_audio_input with a non-empty
\* transcript calls query_llm on the history and the history is kept.
Turn(user_input, search, reply, ok, add_ok) ==
    /\ Len(memoryLog) < MaxTurns
    /\ user_input \in UserChars
    /\ search \in Searches
    /\ reply \in ReplyChars
    /\ LET r == query_llm(history, user_input, search, reply, ok, add_ok,
                          Len(memoryLog) + 1)
       IN /\ history' = r.conversation
          /\ full_context' = r.full_context
          /\ memoryLog' = Append(
                 [i \in 1..Len(memoryLog) |->
                     [memoryLog[i] EXCEPT !.search = NULL,
                                          !.add_raised = FALSE,
                                          !.reply = NULL]],
                 [ok |-> r.ok, add |-> r.memory_add, search |-> search,
                  add_raised |-> r.memory_add /\ ~add_ok,
                  reply |-> r.reply])
    /\ UNCHANGED <<client, memory>>
    /\ UNCHANGED <<pipelineVars, guardVars, callVars, assessVars, storageVars, helperVars>>

\* ------------------------------------------- assess_risk and the model
\* self.risk_measure
risk_measure ==
    [c \in {"Presence of a loved one", "Ability to hope for change",
            "Ability to control oneself"} |-> "low_risk"] @@
    [c \in {"Ability to take care of oneself", "Consumption"}
        |-> "medium_risk"] @@
    [c \in {"Previous attempt"} |-> "high_risk"] @@
    [c \in {"Suicidal planning"} |-> "alert"] @@
    [c \in {"Other"} |-> "no_risk"]

\* What self.model(translated_text) can come to: a label of risk_measure,
\* a value that is no key of it, or an exception (of the prediction, or of
\* the lookup of an unhashable prediction).
Predictions == DOMAIN risk_measure \cup {"LABEL_7", "raises"}

\* _load_model: nothing when a load is running or was attempted; else the
\* load ends with the model or, on any exception, without it.
load_model(svc, loaded) ==
    IF svc.model_loading \/ svc.model_load_attempted
    THEN svc
    ELSE [model |-> loaded, model_loading |-> FALSE,
          model_load_attempted |-> TRUE]

assess_risk_NoFallback(svc, text, loaded, prediction) ==
    LET after == IF ~svc.model /\ ~svc.model_loading
                    /\ ~svc.model_load_attempted
                 THEN load_model(svc, loaded) ELSE svc
    IN IF ~after.model \/ prediction = "raises"
       THEN [service |-> after, used_model |-> FALSE,
             result |-> [risk_category |-> "Other", risk_level |-> "no_risk"]]
       ELSE IF text = ""
       THEN [service |-> after, used_model |-> TRUE,
             result |-> [risk_category |-> "Other", risk_level |-> "no_risk"]]
       ELSE [service |-> after, used_model |-> TRUE,
             result |-> [risk_category |-> prediction,
                         risk_level |-> IF prediction \in DOMAIN risk_measure
                                        THEN risk_measure[prediction]
                                        ELSE "no_risk"]]

\* assess_risk: a first use loads the model; without a model, or when the
\* prediction raises, the keyword fallback answers; an empty text is
\* 'Other'; translate_text swallows its own failures and hands back the
\* text, so a failed translation does not leave the model path.
assess_risk(svc, text, loaded, prediction) ==
    LET after == IF ~svc.model /\ ~svc.model_loading
                    /\ ~svc.model_load_attempted
                 THEN load_model(svc, loaded) ELSE svc
    IN IF ~after.model
       THEN [service |-> after, used_model |-> FALSE,
             result |-> FallbackRiskAssessment(text)]
       ELSE IF text = ""
       THEN [service |-> after, used_model |-> TRUE,
             result |-> [risk_category |-> "Other", risk_level |-> "no_risk"]]
       ELSE IF prediction = "raises"
       THEN [service |-> after, used_model |-> FALSE,
             result |-> FallbackRiskAssessment(text)]
       ELSE [service |-> after, used_model |-> TRUE,
             result |-> [risk_category |-> prediction,
                         risk_level |-> IF prediction \in DOMAIN risk_measure
                                        THEN risk_measure[prediction]
                                        ELSE "no_risk"]]

\* RiskAssessmentService(): the fields are reset and _load_model starts.
NewService ==
    /\ ~service.model_loading
    /\ service' = [model |-> FALSE, model_loading |-> TRUE,
                   model_load_attempted |-> FALSE]
    /\ UNCHANGED <<assessment, pipelineVars, llmVars, guardVars, callVars, storageVars, helperVars>>

\* _load_model comes to its end (the finally clause).
LoadModelEnds(loaded) ==
    /\ service.model_loading
    /\ service' = [model |-> loaded, model_loading |-> FALSE,
                   model_load_attempted |-> TRUE]
    /\ UNCHANGED <<assessment, pipelineVars, llmVars, guardVars, callVars, storageVars, helperVars>>

\* A thread calls assess_risk on the service, in whatever state it is.
AssessRisk(text, loaded, prediction) ==
    /\ text \in Texts \cup {""}
    /\ prediction \in Predictions
    /\ LET r == assess_risk(service, text, loaded, prediction)
       IN /\ service' = r.service
          /\ assessment' = [text |-> text, result |-> r.result,
                            used_model |-> r.used_model]
    /\ UNCHANGED <<pipelineVars, llmVars, guardVars, callVars, storageVars, helperVars>>

\* ------------------------------------------------ LocalRecordingStorage
\* hashlib.md5(content).hexdigest(): different for the different contents
\* of the model.
md5(content) == <<"md5", content>>

\* verify_recording_integrity: both files exist and the hash of the audio
\* file is the md5_hash of the metadata.
verify_recording_integrity(file_path) ==
    /\ files[file_path] # NULL
    /\ metas[file_path] # <<>>
    /\ md5(files[file_path]) = metas[file_path]

\* The seconds of datetime.now() pass.
Tick ==
    /\ clock < MaxClock
    /\ clock' = clock + 1
    /\ UNCHANGED <<files, metas, stores, stored,
                   pipelineVars, llmVars, guardVars, callVars, assessVars,
                   helperVars>>

\* store_recording_locally, up to the file path: the download (any status
\* but 200 returns None), then the name from the time and the call id.
Store_Download(w, call_id, content, ok) ==
    /\ stores[w].pc = "idle"
    /\ IF ok
       THEN stores' = [stores EXCEPT ![w] =
                [pc |-> "write_file", content |-> content,
                 file_path |-> [timestamp |-> clock, call_id |-> call_id]]]
       ELSE stores' = stores
    /\ UNCHANGED <<clock, files, metas, stored,
                   pipelineVars, llmVars, guardVars, callVars, assessVars,
                   helperVars>>

\* with open(file_path, 'wb') as f: f.write(audio_response.content)
Store_WriteFile(w) ==
    /\ stores[w].pc = "write_file"
    /\ files' = [files EXCEPT ![stores[w].file_path] = stores[w].content]
    /\ stores' = [stores EXCEPT ![w].pc = "write_meta"]
    /\ UNCHANGED <<clock, metas, stored,
                   pipelineVars, llmVars, guardVars, callVars, assessVars,
                   helperVars>>

\* The metadata with the hash of the downloaded content is written to
\* file_path + '.meta.json' and returned.
Store_WriteMeta(w) ==
    /\ stores[w].pc = "write_meta"
    /\ LET metadata == [local_path |-> stores[w].file_path,
                        md5_hash |-> md5(stores[w].content)]
       IN /\ metas' = [metas EXCEPT ![stores[w].file_path] =
                                        metadata.md5_hash]
          /\ stored' = stored \cup {metadata}
    /\ stores' = [stores EXCEPT ![w] = [pc |-> "idle"]]
    /\ UNCHANGED <<clock, files,
                   pipelineVars, llmVars, guardVars, callVars, assessVars,
                   helperVars>>

\* ------------------------------------- guard rails in the background
\* The texts of test_background_guard_rails.
UserInputs == {"Hello, I'm feeling sad today", "I want to hurt myself"}
AssistantResponses == {"I'm here to listen and support you",
                       "Here's how to harm yourself"}

\* The reply of a turn is decided: query_llm has returned it.
ReplyDecided(user_input, assistant_response) ==
    /\ exchange.pc \in {"idle", "returned"}
    /\ Len(guardTasks) < 2 * MaxChunks
    /\ user_input \in UserInputs
    /\ assistant_response \in AssistantResponses
    /\ exchange' = [pc |-> "decided", user_input |-> user_input,
                    assistant_response |-> assistant_response,
                    audio |-> NULL, instruction |-> NULL]
    /\ UNCHANGED <<guardTasks, pipelineVars, llmVars, callVars, assessVars, storageVars, helperVars>>

\* start_guard_rails_background(user_input, assistant_response): one
\* daemon task per guard (guard_1 is POLICY__NO_HARASSMENT, guard_2 is
\* POLICY__NO_DANGEROUS_CONTENT), each with a copy of the two texts.
start_guard_rails_background ==
    /\ exchange.pc = "decided"
    /\ guardTasks' = guardTasks \o
           <<[guard |-> "guard_1", state |-> "running",
              texts |-> <<exchange.user_input, exchange.assistant_response>>],
             [guard |-> "guard_2", state |-> "running",
              texts |-> <<exchange.user_input, exchange.assistant_response>>]>>
    /\ exchange' = [exchange EXCEPT !.pc = "started"]
    /\ UNCHANGED <<pipelineVars, llmVars, callVars, assessVars, storageVars, helperVars>>

TurnReturns_AfterGuards ==
    /\ exchange.pc = "started"
    /\ \A i \in 1..Len(guardTasks) : guardTasks[i].state # "running"
    /\ exchange' = [exchange EXCEPT
                        !.audio = <<"speech", exchange.assistant_response>>,
                        !.instruction = "Record",
                        !.pc = "returned"]
    /\ UNCHANGED <<guardTasks, pipelineVars, llmVars, callVars, assessVars, storageVars, helperVars>>

\* The rest of the turn: the reply is synthesised and the instruction to
\* play it and resume recording is returned.
TurnReturns ==
    /\ exchange.pc = "started"
    /\ exchange' = [exchange EXCEPT
                        !.audio = <<"speech", exchange.assistant_response>>,
                        !.instruction = "Record",
                        !.pc = "returned"]
    /\ UNCHANGED <<guardTasks, pipelineVars, llmVars, callVars, assessVars, storageVars, helperVars>>

\* A background validation ends: the guard passes, reports a violation
\* (OnFailAction.EXCEPTION) or raises; the outcome is logged.  A task that
\* never ends stays "running".
GuardValidates(i, outcome) ==
    /\ i \in 1..Len(guardTasks)
    /\ guardTasks[i].state = "running"
    /\ outcome \in {"pass", "violation", "raised"}
    /\ guardTasks' = [guardTasks EXCEPT ![i].state = outcome]
    /\ UNCHANGED <<exchange, pipelineVars, llmVars, callVars, assessVars, storageVars, helperVars>>

\* ------------------------------------------ the call webhooks, row by row
\* request.POST of the voice webhook: From, CallSid and FromCity (with
\* FromState and FromCountry); '' stands for a parameter that is missing.
VoiceRequests == [From : {"", "+15550100"}, CallSid : {"CA1", "CA2"},
                  FromCity : {"", "Pune"}]

\* CallStatus values of the status callback.
FinalStatuses == {"completed", "failed", "busy", "no-answer", "canceled"}
CallStatuses == FinalStatuses \cup {"in-progress"}

\* The indices of the Call rows with this twilio_call_sid (unique=True).
RowsWithSid(sid) == {i \in 1..Len(callRows) : callRows[i].twilio_call_sid = sid}

\* handle_incoming_call: Call.objects.create and a response that records.
\* A CallSid already stored violates the unique constraint; the
\* IntegrityError is handled nowhere and the request ends as a server error.
handle_incoming_call(request) ==
    /\ request \in VoiceRequests
    /\ IF RowsWithSid(request.CallSid) = {}
       THEN /\ callRows' = Append(callRows,
                   [phone_number |-> request.From,
                    twilio_call_sid |-> request.CallSid,
                    status |-> "in_progress",
                    start_time |-> TRUE, end_time |-> FALSE,
                    duration |-> FALSE,
                    caller_city |-> request.FromCity])
            /\ response' = [handler |-> "voice", request |-> request,
                            status |-> 200, verbs |-> <<"Record">>]
       ELSE /\ callRows' = callRows
            /\ response' = [handler |-> "voice", request |-> request,
                            status |-> 500, verbs |-> <<>>]
    /\ UNCHANGED <<USE_TZ, pipelineVars, llmVars, guardVars, assessVars, storageVars, helperVars>>

\* twilio_status_webhook: 'completed' stamps end_time and duration, the
\* other final statuses only set status 'failed', any other status saves
\* the row as it is.  datetime.now() is naive: subtracting an aware
\* start_time raises TypeError, which the handler catches before save().
twilio_status_webhook(call_sid, call_status) ==
    /\ call_sid \in {"CA1", "CA2"}
    /\ call_status \in CallStatuses
    /\ LET found == RowsWithSid(call_sid)
           i == CHOOSE i \in found : TRUE
       IN callRows' =
              IF found = {} THEN callRows
              ELSE CASE call_status = "completed" ->
                            IF USE_TZ THEN callRows
                            ELSE [callRows EXCEPT ![i].status = "completed",
                                                  ![i].end_time = TRUE,
                                                  ![i].duration = TRUE]
                     [] call_status \in FinalStatuses \ {"completed"} ->
                            [callRows EXCEPT ![i].status = "failed"]
                     [] OTHER -> callRows
    /\ response' = [handler |-> "status",
                    request |-> [CallSid |-> call_sid,
                                 CallStatus |-> call_status],
                    status |-> 200, verbs |-> <<>>]
    /\ UNCHANGED <<USE_TZ, pipelineVars, llmVars, guardVars, assessVars, storageVars, helperVars>>

\* ------------------------------------------------ _wait_for_file_creation
\* timeout=30 with poll_interval=0.5: the timeout in poll intervals.
WaitTimeout == 60

\* How long one time.sleep(poll_interval) with the poll before it can take,
\* in poll intervals: the interval, or longer on a loaded machine.
Sleeps == {1, 2, 5}

\* The synthesis, on its own schedule, creates the response file, fills it
\* or removes it.
ArtifactChanges(state) ==
    /\ state \in {"absent", "empty", "written"} \ {artifact}
    /\ artifact' = state
    /\ UNCHANGED <<waiter, closing, pipelineVars, llmVars, guardVars,
                   callVars, assessVars, storageVars>>

\* start_time = time.time()
WaitForFileCreation ==
    /\ waiter.pc \in {"idle", "returned"}
    /\ waiter' = [pc |-> "while", elapsed |-> 0, result |-> NULL]
    /\ UNCHANGED <<artifact, closing, pipelineVars, llmVars, guardVars,
                   callVars, assessVars, storageVars>>

\* while time.time() - start_time < timeout: ... ; return False
W_While ==
    /\ waiter.pc = "while"
    /\ waiter' = IF waiter.elapsed < WaitTimeout
                 THEN [waiter EXCEPT !.pc = "exists"]
                 ELSE [waiter EXCEPT !.pc = "returned", !.result = FALSE]
    /\ UNCHANGED <<artifact, closing, pipelineVars, llmVars, guardVars,
                   callVars, assessVars, storageVars>>

\* if os.path.exists(file_path):
W_Exists ==
    /\ waiter.pc = "exists"
    /\ waiter' = [waiter EXCEPT !.pc = IF artifact = "absent" THEN "sleep"
                                       ELSE "getsize"]
    /\ UNCHANGED <<artifact, closing, pipelineVars, llmVars, guardVars,
                   callVars, assessVars, storageVars>>

W_GetSize_AnySize ==
    /\ waiter.pc = "getsize"
    /\ waiter' = IF artifact # "absent"
                 THEN [waiter EXCEPT !.pc = "returned", !.result = TRUE]
                 ELSE [waiter EXCEPT !.pc = "sleep"]
    /\ UNCHANGED <<artifact, closing, pipelineVars, llmVars, guardVars,
                   callVars, assessVars, storageVars>>

\* file_size = os.path.getsize(file_path); if file_size > 0: return True.
\* A file removed since os.path.exists raises OSError, which is passed over.
W_GetSize ==
    /\ waiter.pc = "getsize"
    /\ waiter' = IF artifact = "written"
                 THEN [waiter EXCEPT !.pc = "returned", !.result = TRUE]
                 ELSE [waiter EXCEPT !.pc = "sleep"]
    /\ UNCHANGED <<artifact, closing, pipelineVars, llmVars, guardVars,
                   callVars, assessVars, storageVars>>

\* time.sleep(poll_interval)
W_Sleep(d) ==
    /\ waiter.pc = "sleep"
    /\ d \in Sleeps
    /\ waiter' = [waiter EXCEPT !.pc = "while", !.elapsed = @ + d]
    /\ UNCHANGED <<artifact, closing, pipelineVars, llmVars, guardVars,
                   callVars, assessVars, storageVars>>

WaitStep ==
    \/ W_While
    \/ W_Exists
    \/ W_GetSize
    \/ \E d \in Sleeps : W_Sleep(d)

\* ------------------------------------------------ conversation_should_end
\* A reply is a sequence of pieces of text, each with its length in
\* characters: a neutral sentence, the end marker in capitals, a closing
\* phrase of end_phrases, a phrase of closure_indicators, and blank space.
PieceChars == [sentence |-> 90, END_MARKER |-> 18, Take_care |-> 9,
               Thank_you |-> 9, end_marker |-> 18, take_care |-> 9,
               thank_you |-> 9, blank |-> 120]
Pieces == {"sentence", "END_MARKER", "Take_care", "Thank_you", "blank"}

\* str.lower(), piece by piece
lower(text_response) ==
    [i \in 1..Len(text_response) |->
        CASE text_response[i] = "END_MARKER" -> "end_marker"
          [] text_response[i] = "Take_care" -> "take_care"
          [] text_response[i] = "Thank_you" -> "thank_you"
          [] OTHER -> text_response[i]]

\* len(text)
RECURSIVE len(_)
len(text) == IF text = <<>> THEN 0
             ELSE PieceChars[Head(text)] + len(Tail(text))

\* str.strip(): the text without the blank space at its two ends
strip(text) ==
    LET inked == {i \in 1..Len(text) : text[i] # "blank"}
    IN IF inked = {} THEN <<>>
       ELSE SubSeq(text, CHOOSE i \in inked : \A j \in inked : i <= j,
                         CHOOSE i \in inked : \A j \in inked : i >= j)

conversation_should_end_CaseSensitive(text_response, is_str) ==
    IF text_response = <<>> \/ ~is_str THEN FALSE
    ELSE IF \E i \in 1..Len(text_response) : text_response[i] = "end_marker"
    THEN TRUE
    ELSE LET response_lower == lower(text_response)
             n == Len(response_lower)
             has_end_phrase ==
                 \E i \in 1..n :
                     /\ response_lower[i] = "take_care"
                     /\ len(SubSeq(response_lower, i, n)) <= 100
             has_closure ==
                 \E i \in 1..n : response_lower[i] = "thank_you"
         IN has_end_phrase \/ (has_closure /\ len(strip(text_response)) < 200)

\* conversation_should_end(response): a phrase is in response_lower[-100:]
\* when the text from its first character on is no longer than 100.
conversation_should_end(text_response, is_str) ==
    IF text_response = <<>> \/ ~is_str THEN FALSE
    ELSE IF \E i \in 1..Len(text_response) :
                lower(text_response)[i] = "end_marker"
    THEN TRUE
    ELSE LET response_lower == lower(text_response)
             n == Len(response_lower)
             has_end_phrase ==
                 \E i \in 1..n :
                     /\ response_lower[i] = "take_care"
                     /\ len(SubSeq(response_lower, i, n)) <= 100
             has_closure ==
                 \E i \in 1..n : response_lower[i] = "thank_you"
         IN has_end_phrase \/ (has_closure /\ len(strip(text_response)) < 200)

\* should_end_conversation = conversation_should_end(text_response), on a
\* reply of the model or on a value that is no string.
ShouldEnd(text_response, is_str) ==
    /\ Len(text_response) <= MaxPieces
    /\ closing' = [response |-> text_response, is_str |-> is_str,
                   asked |-> TRUE,
                   result |-> conversation_should_end(text_response, is_str)]
    /\ UNCHANGED <<waiter, artifact, pipelineVars, llmVars, guardVars,
                   callVars, assessVars, storageVars>>

\* ------------------------------------------------------------ specifications
HandlersQuiet == \A h \in Handlers : hst[h].pc = "idle"
ThreadsQuiet == \A t \in RiskThreads : rst[t].pc \in {"idle", "done", "raised"}
Quiet == HandlersQuiet /\ ThreadsQuiet

HandlerStep(h) ==
    \/ H_GetCall(h)
    \/ H_Count(h)
    \/ H_Create(h)
    \/ \E ok \in BOOLEAN : H_Download(h, ok)
    \/ \E outcome \in Outcomes \ {"ok_should_end"} : H_Sarvam(h, outcome)
    \/ H_MarkProcessed(h)
    \/ H_MarkPlayed(h)
    \/ H_Exception(h)
    \/ H_Return(h)

ThreadStep(t) ==
    \/ R_GetChunk(t)
    \/ R_Assess(t)
    \/ U_GetCall(t)
    \/ U_Query(t)
    \/ U_Write(t)
    \/ E_Check(t)
    \/ E_Create(t)

\* The webhook boundary: every notification on its own worker, the workers
\* of one call running concurrently, the status webhook reporting the end
\* of the call at any time (the statuses stored as failed are drawn in
\* NextRisk).
Next ==
    \/ IncomingCall
    \/ \E h \in Handlers, hasUrl \in BOOLEAN : RecordingComplete(h, hasUrl)
    \/ \E h \in Handlers : HandlerStep(h)
    \/ StatusWebhook("completed")

Spec == Init /\ [][Next]_vars

\* The background assessments of a call's chunks, running concurrently with
\* each other and with the status webhook.
NextRisk ==
    \/ IncomingCall
    \/ \E text \in Texts \cup {NULL} : CreateChunk(text)
    \/ \E t \in RiskThreads, c \in 1..Len(chunks) :
           ProcessChunkRiskAssessment(t, c)
    \/ \E t \in RiskThreads : ThreadStep(t)
    \/ \E status \in {"completed", "failed"} : StatusWebhook(status)

InitRisk == Init /\ fallbackExists = TRUE

SpecRisk == InitRisk /\ [][NextRisk]_vars

\* The segment handler and the assessments of a call in progress, one after
\* another: each starts only when nothing else is running.
NextSeq ==
    \/ IncomingCall
    \/ \E text \in Texts \cup {NULL} : Quiet /\ CreateChunk(text)
    \/ \E h \in Handlers, hasUrl \in BOOLEAN :
           Quiet /\ Len(chunks) < MaxChunks /\ RecordingComplete(h, hasUrl)
    \/ \E h \in Handlers : HandlerStep(h)
    \/ \E t \in RiskThreads, c \in 1..Len(chunks) :
           Quiet /\ ProcessChunkRiskAssessment(t, c)
    \/ \E t \in RiskThreads : ThreadStep(t)

SpecSeq == Init /\ [][NextSeq]_vars

\* The steps of a segment handler that end on their own: every step but
\* the download of a recording, where requests.get is called without a
\* timeout and returns only when the provider answers or closes the
\* connection.
LocalStep(h) == ~(hst[h].pc = "download" /\ hst[h].url) /\ HandlerStep(h)

\* The workers are scheduled: a handler that can take a local step takes it.
SpecLive == SpecSeq /\ \A h \in Handlers : WF_vars(LocalStep(h))

\* One recording whose notification the provider delivers again (the same
\* call, the same RecordingUrl), each delivery after the one before it was
\* answered.  Here a reply that closes the conversation is told apart from
\* the other replies; the handler treats both alike, and elsewhere "ok"
\* stands for either.
NextRetry ==
    \/ IncomingCall
    \/ \E h \in Handlers : HandlersQuiet /\ RecordingComplete(h, TRUE)
    \/ \E h \in Handlers : HandlerStep(h)
    \/ \E h \in Handlers : H_Sarvam(h, "ok_should_end")

SpecRetry == InitRisk /\ [][NextRetry]_vars

\* The segment handlers of a call, one at a time, with one assessment of
\* the newest chunk (a transcribed first chunk, or the one a handler
\* created) running in the background, free to fail at any step.
NextBackground ==
    \/ IncomingCall
    \/ \E text \in Texts : Quiet /\ chunks = <<>> /\ CreateChunk(text)
    \/ \E h \in Handlers : HandlersQuiet /\ RecordingComplete(h, TRUE)
    \/ \E h \in Handlers : HandlerStep(h)
    \/ \E t \in RiskThreads :
           nAssessments = 0 /\ ProcessChunkRiskAssessment(t, Len(chunks))
    \/ \E t \in RiskThreads : ThreadStep(t)
    \/ \E t \in RiskThreads : R_Exception(t)

SpecBackground == InitRisk /\ [][NextBackground]_vars

\* The assessments and the alert service, one after another.
NextAlert ==
    \/ IncomingCall
    \/ \E text \in Texts \cup {NULL} : Quiet /\ CreateChunk(text)
    \/ \E t \in RiskThreads, c \in 1..Len(chunks) :
           Quiet /\ ProcessChunkRiskAssessment(t, c)
    \/ \E t \in RiskThreads : ThreadStep(t)
    \/ \E reached \in SUBSET (1..(Len(contacts) + Len(SampleContacts))) :
           Quiet /\ AlertEmergencyContacts(reached)

SpecAlert == InitRisk /\ [][NextAlert]_vars

\* alert_emergency_for_critical_risk on a call whose first chunk was just
\* assessed as high risk or alert: the alert runs come after it.
NextCritical ==
    \/ IncomingCall
    \/ \E text \in Texts : Quiet /\ nAlerts = 0 /\ CreateChunk(text)
    \/ \E t \in RiskThreads :
           Quiet /\ nAlerts = 0 /\ ProcessChunkRiskAssessment(t, Len(chunks))
    \/ \E t \in RiskThreads : ThreadStep(t)
    \/ \E reached \in SUBSET (1..(Len(contacts) + Len(SampleContacts))) :
           /\ Quiet
           /\ Len(chunks) = 1
           /\ get_risk_priority(call.highest_risk_level) >= 3
           /\ AlertEmergencyContacts(reached)

SpecCritical == InitRisk /\ [][NextCritical]_vars

\* A wait for the response file while the synthesis writes it; the waiting
\* thread is scheduled, the synthesis owes nothing.
NextWait ==
    \/ WaitForFileCreation
    \/ WaitStep
    \/ \E state \in {"absent", "empty", "written"} : ArtifactChanges(state)

SpecWait == InitRisk /\ [][NextWait]_vars /\ WF_vars(WaitStep)

\* The replies conversation_should_end is asked about, one after another.
NextClosing ==
    \E n \in 0..MaxPieces, is_str \in BOOLEAN :
        \E text_response \in [1..n -> Pieces] : ShouldEnd(text_response, is_str)

SpecClosing == InitRisk /\ [][NextClosing]_vars

\* The turns of one call through query_llm, on the history the pipeline
\* loads ([system prompt]) or on the empty list process_single_audio_input
\* starts from.
InitLlm ==
    /\ InitPipeline
    /\ fallbackExists = TRUE
    /\ exchange = [pc |-> "idle", user_input |-> NULL,
                   assistant_response |-> NULL, audio |-> NULL,
                   instruction |-> NULL]
    /\ guardTasks = <<>>
    /\ callRows = <<>>
    /\ response = [handler |-> NULL, request |-> NULL, status |-> NULL,
                   verbs |-> <<>>]
    /\ USE_TZ = FALSE
    /\ service = [model |-> FALSE, model_loading |-> FALSE,
                  model_load_attempted |-> FALSE]
    /\ assessment = [text |-> NULL, result |-> NULL, used_model |-> FALSE]
    /\ clock = 0
    /\ files = [path \in Paths |-> NULL]
    /\ metas = [path \in Paths |-> <<>>]
    /\ stores = [w \in Handlers |-> [pc |-> "idle"]]
    /\ stored = {}
    /\ HelpersIdle
    /\ history \in {<<>>, <<StoredSystemMessage>>}
    /\ full_context = <<>>
    /\ memoryLog = <<>>
    /\ client \in BOOLEAN
    /\ memory \in BOOLEAN

NextLlm ==
    \E user_input \in UserChars, search \in Searches,
       reply \in ReplyChars, ok \in BOOLEAN, add_ok \in BOOLEAN :
        Turn(user_input, search, reply, ok, add_ok)

SpecLlm == InitLlm /\ [][NextLlm]_vars

\* The turns of one call with their background validations.
NextGuard ==
    \/ \E user_input \in UserInputs,
          assistant_response \in AssistantResponses :
           ReplyDecided(user_input, assistant_response)
    \/ start_guard_rails_background
    \/ TurnReturns
    \/ \E i \in 1..Len(guardTasks),
          outcome \in {"pass", "violation", "raised"} :
           GuardValidates(i, outcome)

SpecGuard == InitRisk /\ [][NextGuard]_vars

\* The call webhooks of any number of calls, under either timezone setting.
InitCalls ==
    /\ InitPipeline
    /\ history = <<>> /\ full_context = <<>> /\ memoryLog = <<>>
    /\ client = TRUE /\ memory = FALSE
    /\ exchange = [pc |-> "idle", user_input |-> NULL,
                   assistant_response |-> NULL, audio |-> NULL,
                   instruction |-> NULL]
    /\ guardTasks = <<>>
    /\ callRows = <<>>
    /\ response = [handler |-> NULL, request |-> NULL, status |-> NULL,
                   verbs |-> <<>>]
    /\ USE_TZ \in BOOLEAN
    /\ service = [model |-> FALSE, model_loading |-> FALSE,
                  model_load_attempted |-> FALSE]
    /\ assessment = [text |-> NULL, result |-> NULL, used_model |-> FALSE]
    /\ clock = 0
    /\ files = [path \in Paths |-> NULL]
    /\ metas = [path \in Paths |-> <<>>]
    /\ stores = [w \in Handlers |-> [pc |-> "idle"]]
    /\ stored = {}
    /\ HelpersIdle

NextCalls ==
    \/ \E request \in VoiceRequests : handle_incoming_call(request)
    \/ \E call_sid \in {"CA1", "CA2"}, call_status \in CallStatuses :
           twilio_status_webhook(call_sid, call_status)

SpecCalls == InitCalls /\ [][NextCalls]_vars

\* A risk service from its construction on, assessing texts at any time.
NextAssess ==
    \/ NewService
    \/ \E loaded \in BOOLEAN : LoadModelEnds(loaded)
    \/ \E text \in Texts \cup {""}, loaded \in BOOLEAN,
          prediction \in Predictions :
           AssessRisk(text, loaded, prediction)

SpecAssess == InitRisk /\ [][NextAssess]_vars

\* The recordings of the segment notifications stored by the two workers.
NextStore ==
    \/ Tick
    \/ \E w \in Handlers, call_id \in {"1f0c2a9e", "7b3d5e11"},
          content \in {"RIFF-1", "RIFF-2"}, ok \in BOOLEAN :
           Store_Download(w, call_id, content, ok)
    \/ \E w \in Handlers : Store_WriteFile(w)
    \/ \E w \in Handlers : Store_WriteMeta(w)

SpecStore == InitRisk /\ [][NextStore]_vars

\* ================================================================= claims
Priority(c) == get_risk_priority(c.highest_risk_level)

RECURSIVE MaxPriority(_, _)
MaxPriority(rows, i) ==
    IF i > Len(rows) THEN 0
    ELSE LET p == get_risk_priority(rows[i].risk_level)
             q == MaxPriority(rows, i + 1)
         IN IF p > q THEN p ELSE q

AutoContacts == {i \in 1..Len(contacts) :
                    contacts[i].contact_type = AutoContactType}

\* C1: every run of handle_recording_complete, whatever fails in it, ends
\* in a returned response that holds a Record verb and no Hangup verb.
C1_AlwaysResumesRecording ==
    \A h \in Handlers :
        /\ hst[h].error # NULL => hst[h].pc = "done"
        /\ hst[h].pc = "done" => /\ "Record" \in Verbs(hst[h].resp)
                                 /\ "Hangup" \notin Verbs(hst[h].resp)

\* A database write failed after the reply was played, and recording resumes.
C1_Witness ==
    \E h \in Handlers : /\ hst[h].pc = "done"
                        /\ hst[h].error = "DatabaseError"
                        /\ hst[h].resp = <<"Play", "Record">>

\* C2: with the assessments of a call processed one after another, no step
\* of an assessment lowers the priority of the stored highest risk level.
C2_HighestNeverLowered ==
    [][rst' # rst => Priority(call') >= Priority(call)]_vars

\* The alert chunk was assessed first, the calmer chunk after it, and the
\* stored level is still alert.
C2_Witness ==
    /\ Len(chunks) = 2
    /\ rst[1].pc = "done" /\ rst[1].chunk = 1
    /\ rst[2].pc = "done" /\ rst[2].chunk = 2
    /\ chunks[1].risk_level = "alert"
    /\ chunks[2].risk_level = "low_risk"
    /\ call.highest_risk_level = "alert"

\* C3: once the stored level is high or critical and no assessment is
\* running, the call has exactly one 'Crisis Team Alert' contact.
C3_ExactlyOneAutoContact ==
    (ThreadsQuiet /\ Priority(call) >= 3) => Cardinality(AutoContacts) = 1

\* C4: handle_high_risk_call is invoked at most once per call.
C4_EscalatedOnce == highRiskCalls <= 1

\* C5: chunk numbers are 1..N in order, and every notification with a
\* recording URL for an existing call, handled without a database failure,
\* has created its chunk.
C5_ContiguousAndComplete ==
    /\ \A i \in 1..Len(chunks) : chunks[i].chunk_number = i
    /\ \A h \in Handlers :
           (hst[h].pc = "done" /\ hst[h].url
            /\ hst[h].error \notin {"DoesNotExist", "DatabaseError"})
           => hst[h].chunk # 0

\* C6: when the concurrent assessments have all ended, the stored level is
\* the highest of the assessed chunks' levels.
C6_FinalIsHighest ==
    (ThreadsQuiet /\ AssessedChunks(chunks) # <<>>)
    => Priority(call) = MaxPriority(AssessedChunks(chunks), 1)

\* C7: when no update is running, the stored level is the maximum of the
\* recorded assessments and the stored category is that of an assessment
\* at this maximum.
C7_StoredIsMaximum ==
    (ThreadsQuiet /\ AssessedChunks(chunks) # <<>>)
    => /\ Priority(call) = MaxPriority(chunks, 1)
       /\ \E i \in 1..Len(chunks) :
              /\ chunks[i].risk_processed
              /\ get_risk_priority(chunks[i].risk_level) = Priority(call)
              /\ chunks[i].risk_category = call.highest_risk_category

\* C8: a segment whose synthesis failed or whose polling timed out is
\* answered with the fallback clip, then recording resumes, and its chunk
\* has response_played set.
C8_FallbackPlayed ==
    \A h \in Handlers :
        (hst[h].pc = "done" /\ hst[h].error = NULL
         /\ hst[h].outcome \in {"synthesis_failed", "poll_timeout"})
        => /\ hst[h].audio = "sample_response.wav"
           /\ hst[h].resp = <<"Play", "Record">>
           /\ chunks[hst[h].chunk].response_played

\* C9: a segment whose transcription is empty makes no call to query_llm,
\* gets no risk assessment, has its chunk marked processed, and recording
\* resumes.
C9_EmptyTranscriptIsProcessed ==
    \A h \in Handlers :
        (hst[h].pc = "done" /\ hst[h].error = NULL
         /\ hst[h].outcome = "empty_transcript")
        => /\ ~hst[h].llm
           /\ chunks[hst[h].chunk].risk_level = NULL
           /\ ~chunks[hst[h].chunk].risk_processed
           /\ chunks[hst[h].chunk].processed
           /\ "Record" \in Verbs(hst[h].resp)

\* C10: no step of an assessment, its escalation included, takes the call
\* out of in_progress, and a segment handled on a call whose stored level
\* is high or critical still gets a Record verb and no Hangup verb.
C10_EscalationKeepsCallGoing ==
    /\ [][(rst' # rst /\ call.status = "in_progress")
          => call'.status = "in_progress"]_vars
    /\ [](\A h \in Handlers :
             (hst[h].pc = "done"
              /\ NeedsEscalation(hst[h].callObj.highest_risk_level))
             => /\ "Record" \in Verbs(hst[h].resp)
                /\ "Hangup" \notin Verbs(hst[h].resp))

\* The call was escalated at alert, is still in progress, and a later
\* segment was answered and resumes recording.
C10_Witness ==
    /\ highRiskCalls >= 1
    /\ AutoContacts # {}
    /\ call.status = "in_progress"
    /\ call.highest_risk_level = "alert"
    /\ \E h \in Handlers : /\ hst[h].pc = "done"
                           /\ hst[h].callObj.highest_risk_level = "alert"
                           /\ hst[h].resp = <<"Play", "Record">>

\* The turn whose context full_context is, and the conversation part of it.
CurrentTurn == Len(memoryLog)
Sent == full_context # <<>>

\* C11 (as claimed): the context sent starts with the system message and
\* its token count is within TARGET_CONTEXT_LIMIT.
C11_WithinBudget ==
    Sent => /\ full_context[1].role = "system"
            /\ full_context[1].turn = CurrentTurn
            /\ count_message_tokens(full_context) <= TARGET_CONTEXT_LIMIT

\* C11 (amended): the context sent starts with the system message, and its
\* token count is within TARGET_CONTEXT_LIMIT unless fewer than two
\* conversation messages are left in it.
C11_WithinBudgetOrAtFloor ==
    Sent => /\ full_context[1].role = "system"
            /\ full_context[1].turn = CurrentTurn
            /\ \/ count_message_tokens(full_context) <= TARGET_CONTEXT_LIMIT
               \/ Len(full_context) < 3

\* The third turn's context lost the first exchange to the trimming, keeps
\* three messages and fits the budget.
C11_Witness ==
    /\ CurrentTurn = 3
    /\ Sent
    /\ Len(full_context) = 4
    /\ \A i \in 1..Len(full_context) : full_context[i].turn # 1
    /\ count_message_tokens(full_context) <= TARGET_CONTEXT_LIMIT

\* C12: the context sent holds the system message and the current caller
\* turn, and every reply left in it still follows the caller turn it
\* answers (only whole earlier exchanges were evicted).
C12_KeepsCurrentTurn ==
    Sent => /\ full_context[1].role = "system"
            /\ \E i \in 2..Len(full_context) :
                   /\ full_context[i].role = "user"
                   /\ full_context[i].turn = CurrentTurn
            /\ \A i \in 2..Len(full_context) :
                   full_context[i].role = "assistant"
                   => /\ i > 2
                      /\ full_context[i - 1].role = "user"
                      /\ full_context[i - 1].turn = full_context[i].turn

\* C19: with the memory available, of any two consecutive successful turns
\* exactly one calls memory.add.
C19_AlternatingMemoryWrites ==
    memory => \A i \in 1..(Len(memoryLog) - 1) :
                  (memoryLog[i].ok /\ memoryLog[i + 1].ok)
                  => memoryLog[i].add # memoryLog[i + 1].add

C14_EveryNotificationAnswered ==
    \A h \in Handlers : (hst[h].pc = "get_call") ~> (hst[h].pc = "done")

\* C15: after a call-started notification there is one Call with the
\* notification's provider call id, in status in_progress and with its
\* caller number and geolocation, and the response is a lone Record verb.
C15_CallCreatedAndRecording ==
    response.handler = "voice"
    => /\ response.verbs = <<"Record">>
       /\ \E i \in 1..Len(callRows) :
              /\ RowsWithSid(response.request.CallSid) = {i}
              /\ callRows[i].status = "in_progress"
              /\ callRows[i].phone_number = response.request.From
              /\ callRows[i].caller_city = response.request.FromCity

\* C16: after a status notification with a final provider status for a
\* stored call, the Call's status is terminal and its end time and duration
\* are set.
C16_FinalStatusStampsEnd ==
    (/\ response.handler = "status"
     /\ response.request.CallStatus \in FinalStatuses)
    => \A i \in RowsWithSid(response.request.CallSid) :
           /\ callRows[i].status \in {"completed", "failed"}
           /\ callRows[i].end_time
           /\ callRows[i].duration

\* C17: every result of assess_risk has a category and a level of the
\* closed level set, and a call that could not use the model returns what
\* the keyword fallback returns for the text.
C17_AlwaysClassified ==
    assessment.text # NULL
    => /\ assessment.result.risk_level \in RiskLevels
       /\ assessment.result.risk_category # NULL
       /\ ~assessment.used_model
          => assessment.result = FallbackRiskAssessment(assessment.text)

\* The prediction raised on a loaded model and the fallback found the
\* alert keywords.
C17_Witness ==
    /\ service.model
    /\ ~assessment.used_model
    /\ assessment.text = "I have a plan to end my life tonight"
    /\ assessment.result.risk_level = "alert"

\* The chunks the keyword classifier has assessed.
Classified == {i \in 1..Len(chunks) : /\ chunks[i].risk_processed
                                      /\ chunks[i].transcription # NULL}

\* C18: an assessed chunk has the level of the most severe keyword tier
\* matching its text (none: no_risk); chunks with the same text have the
\* same assessment; 'I lost my job and feel hopeless' is at or below
\* medium_risk, and a call with no other text has no escalation; 'I have a
\* plan to end my life tonight' is alert.
C18_MostSevereTierWins ==
    LET TierPriority == [tier \in {"low", "medium", "high", "alert"} |->
                            CASE tier = "low" -> 1 [] tier = "medium" -> 2
                              [] tier = "high" -> 3 [] tier = "alert" -> 4]
        level(i) == get_risk_priority(chunks[i].risk_level)
        tiers(i) == KeywordTiers(chunks[i].transcription)
    IN /\ \A i \in Classified :
              /\ chunks[i].risk_level \in RiskLevels
              /\ \A tier \in tiers(i) : TierPriority[tier] <= level(i)
              /\ IF tiers(i) = {} THEN level(i) = 0
                 ELSE \E tier \in tiers(i) : TierPriority[tier] = level(i)
       /\ \A i, j \in Classified :
              chunks[i].transcription = chunks[j].transcription
              => /\ chunks[i].risk_level = chunks[j].risk_level
                 /\ chunks[i].risk_category = chunks[j].risk_category
       /\ \A i \in Classified :
              /\ chunks[i].transcription = "I lost my job and feel hopeless"
                 => level(i) <= 2
              /\ chunks[i].transcription
                   = "I have a plan to end my life tonight"
                 => chunks[i].risk_level = "alert"
       /\ (\A i \in 1..Len(chunks) :
              chunks[i].transcription
                  \in {NULL, "I lost my job and feel hopeless"})
          => AutoContacts = {} /\ highRiskCalls = 0

\* The first segment, 'I lost my job and feel hopeless', was assessed
\* low_risk and nothing was escalated until the second, 'I have a plan to
\* end my life tonight', was assessed alert.
C18_Witness ==
    /\ Len(chunks) = 2
    /\ Classified = {1, 2}
    /\ chunks[1].transcription = "I lost my job and feel hopeless"
    /\ chunks[1].risk_level = "low_risk"
    /\ chunks[2].transcription = "I have a plan to end my life tonight"
    /\ chunks[2].risk_level = "alert"
    /\ highRiskCalls = 1

\* C20: when no store is running, every recording a store has returned
\* verifies on its stored path.
C20_StoredRecordingsVerify ==
    (\A w \in Handlers : stores[w].pc = "idle")
    => \A metadata \in stored : verify_recording_integrity(metadata.local_path)

C22_DroppedWithoutCorruption ==
    [][\A h \in Handlers :
           /\ (hst'[h] # hst[h]
               /\ hst'[h].error \in {"DoesNotExist", "IntegrityError"})
              => call' = call /\ chunks' = chunks
           /\ hst'[h].error \in {"DoesNotExist", "IntegrityError"}
              => /\ hst'[h].chunk = 0
                 /\ hst'[h].outcome = NULL
                 /\ ~hst'[h].llm
                 /\ hst'[h].resp = <<"Record">>]_vars

\* Two notifications computed the same chunk number: the second was
\* dropped, the first one's chunk is answered and played.
C22_Witness ==
    \E h \in Handlers :
        /\ hst[h].pc = "done"
        /\ hst[h].error = "IntegrityError"
        /\ Len(chunks) = 1
        /\ chunks[1].response_played

\* C23: however often the notification of one recording is delivered, the
\* call has one chunk for it, one caller turn in its history and one text
\* in its transcript.
C23_RedeliveryIsIdempotent ==
    /\ Len(chunks) <= 1
    /\ Cardinality({i \in 1..Len(call.conversation_state) :
                       call.conversation_state[i] = "user"}) <= 1
    /\ call.transcription <= 1

\* C24: the response to a segment whose reply signals the natural end of
\* the conversation has no Record verb.
C24_LoopEndsOnNaturalClose ==
    \A h \in Handlers :
        (hst[h].pc = "done" /\ hst[h].error = NULL
         /\ hst[h].outcome = "ok_should_end")
        => "Record" \notin Verbs(hst[h].resp)

\* C25: a run of alert_emergency_contacts attempts every contact of its
\* list, whichever alerts fail; each contact ends in alerts_sent or in
\* errors; and the run changes neither the Call nor a chunk.
C25_FailuresDoNotBlockOthers ==
    [][nAlerts' # nAlerts
       => LET all == DatabaseContacts \o SampleEmergencyContacts
          IN /\ alert_results'.contacts_attempted = Len(all)
             /\ Len(alert_results'.alerts_sent)
                  + Len(alert_results'.errors) = Len(all)
             /\ \A i \in 1..Len(alert_results'.errors) :
                    \E k \in 1..Len(all) :
                        all[k].name = alert_results'.errors[i]
             /\ call' = call
             /\ chunks' = chunks]_vars

\* The alert to the first sample contact failed and the last one was
\* still reached, on a call whose stored level is alert.
C25_Witness ==
    /\ nAlerts >= 1
    /\ call.highest_risk_level = "alert"
    /\ alert_results.contacts_attempted >= Len(SampleContacts)
    /\ "Crisis Hotline Supervisor"
           \in {alert_results.errors[i] : i \in 1..Len(alert_results.errors)}
    /\ \E i \in 1..Len(alert_results.alerts_sent) :
           alert_results.alerts_sent[i].name = "Mental Health Crisis Team"

\* C26: the assessment stored for chunk k of a call is the one the cumulative
\* transcript of chunks 1..k would get (the keyword tiers of all their texts
\* together), not the one chunk k's own text gets.
C26_AssessedOnCumulativeTranscript ==
    \A k \in 1..Len(chunks) :
        chunks[k].risk_level # NULL =>
            LET tiers == UNION {KeywordTiers(chunks[j].transcription) :
                                    j \in {i \in 1..k :
                                              chunks[i].transcription # NULL}}
                level == IF "alert" \in tiers THEN "alert"
                         ELSE IF "high" \in tiers THEN "high_risk"
                         ELSE IF "medium" \in tiers THEN "medium_risk"
                         ELSE IF "low" \in tiers THEN "low_risk"
                         ELSE "no_risk"
            IN chunks[k].risk_level = level

\* C27: every store writes its audio to a path no earlier store has written
\* to, and no store changes an audio file or a metadata file that is
\* already there.
C27_OwnPathPerChunk ==
    [][/\ \A w \in Handlers :
              (stores[w].pc = "write_file" /\ stores'[w].pc = "write_meta")
              => files[stores[w].file_path] = NULL
       /\ \A path \in Paths :
              /\ files[path] # NULL => files'[path] = files[path]
              /\ metas[path] # <<>> => metas'[path] = metas[path]]_vars

\* C28: process_chunk_risk_assessment only starts the thread: the step
\* changes no chunk and no Call and leaves the assessment still to run.  No
\* step of an assessment, a failing one included, changes the frame of a
\* segment handler, and every response a handler returns without an error
\* of its own holds a Record verb and no Hangup verb.
C28_BackgroundNeverSurfaces ==
    [][/\ nAssessments' # nAssessments
          => /\ rst'[nAssessments'].pc = "get_chunk"
             /\ chunks' = chunks /\ call' = call /\ hst' = hst
       /\ rst' # rst => hst' = hst
       /\ \A h \in Handlers :
              (hst'[h].pc = "done" /\ hst'[h].error = NULL)
              => /\ "Record" \in Verbs(hst'[h].resp)
                 /\ "Hangup" \notin Verbs(hst'[h].resp)]_vars

\* An assessment raised while a segment was being handled, and the segment
\* was answered with the reply and a new recording.
C28_Witness ==
    \E t \in RiskThreads, h \in Handlers :
        /\ rst[t].pc = "raised"
        /\ hst[h].pc = "done" /\ hst[h].error = NULL
        /\ hst[h].chunk > rst[t].chunk
        /\ hst[h].resp = <<"Play", "Record">>

\* C29: after every turn a context was sent for completion, the history
\* ends with the caller's turn followed by the reply to it, and no two
\* messages of the caller or of the assistant follow each other in it.
C29_OneCompletionThenReply ==
    Len(memoryLog) > 0 =>
        LET n == Len(history)
            turn == Len(memoryLog)
        IN /\ full_context # <<>>
           /\ n >= 2
           /\ history[n - 1].role = "user" /\ history[n - 1].turn = turn
           /\ history[n].role = "assistant" /\ history[n].turn = turn
           /\ \A i \in 1..(n - 1) :
                  history[i].role # "system"
                  => history[i].role # history[i + 1].role

\* C30 (as claimed): a turn whose memory.search or memory.add raised and
\* whose completion call returned gives back the model's reply as the last
\* message of the history, and the context it sent is the one of a search
\* that found nothing.
C30_AsIfNothingFound ==
    Len(memoryLog) > 0 =>
        LET e == memoryLog[Len(memoryLog)]
        IN ((e.search = "raises" \/ e.add_raised) /\ client /\ e.ok)
           => /\ e.reply = "model"
              /\ history[Len(history)].role = "assistant"
              /\ history[Len(history)].turn = CurrentTurn
              /\ full_context[1] = SystemMsg(0, CurrentTurn)

\* C30 (amended): such a turn gives back the model's reply as the last
\* message of the history; after a failed search the system message sent
\* holds "No memories available" where the memories would be.
C30_MemoryFailureKeepsTurn ==
    Len(memoryLog) > 0 =>
        LET e == memoryLog[Len(memoryLog)]
        IN ((e.search = "raises" \/ e.add_raised) /\ client /\ e.ok)
           => /\ e.reply = "model"
              /\ history[Len(history)].role = "assistant"
              /\ history[Len(history)].turn = CurrentTurn
              /\ full_context[1] =
                     SystemMsg(IF e.search = "raises" THEN NoMemoriesChars
                               ELSE MemoriesChars(e.search), CurrentTurn)

\* The search and the update of the memory both raised in a turn, and the
\* model's reply was returned.
C30_Witness ==
    /\ Len(memoryLog) > 0
    /\ memoryLog[Len(memoryLog)].search = "raises"
    /\ memoryLog[Len(memoryLog)].add_raised
    /\ memoryLog[Len(memoryLog)].reply = "model"
    /\ history[Len(history)].role = "assistant"

\* C31: every wait that was started returns; it returns True only at a poll
\* that finds the file with a size above zero, and False only when the
\* timeout has elapsed.
C31_WaitTerminates ==
    /\ (waiter.pc \notin {"idle", "returned"}) ~> (waiter.pc = "returned")
    /\ [][waiter'.pc = "returned" /\ waiter.pc # "returned"
          => /\ waiter'.result \in BOOLEAN
             /\ waiter'.result = TRUE
                => waiter.pc = "getsize" /\ artifact = "written"
             /\ waiter'.result = FALSE
                => waiter.elapsed >= WaitTimeout]_vars

\* A wait saw the file empty at first, slept, and returned True later.
C31_Witness ==
    /\ waiter.pc = "returned"
    /\ waiter.result = TRUE
    /\ waiter.elapsed > 0

\* C32: the answer is True exactly for a string that is not empty and holds
\* the end marker in any case, or a closing phrase wholly inside its last
\* 100 characters, or a closure indicator while its stripped length is
\* under 200.
C32_EndsExactlyOnClose ==
    closing.asked =>
        LET r == closing.response
            n == Len(r)
            Chars(i, j) == len(SubSeq(r, i, j))
            lead == IF \E i \in 1..n : r[i] # "blank"
                    THEN Chars(1, (CHOOSE i \in 1..n :
                                      /\ r[i] # "blank"
                                      /\ \A j \in 1..(i - 1) : r[j] = "blank")
                                  - 1)
                    ELSE Chars(1, n)
            trail == IF \E i \in 1..n : r[i] # "blank"
                     THEN Chars((CHOOSE i \in 1..n :
                                    /\ r[i] # "blank"
                                    /\ \A j \in (i + 1)..n : r[j] = "blank")
                                + 1, n)
                     ELSE 0
        IN closing.result =
               (/\ closing.is_str
                /\ n > 0
                /\ \/ \E i \in 1..n : r[i] \in {"END_MARKER", "end_marker"}
                   \/ \E i \in 1..n : /\ r[i] \in {"Take_care", "take_care"}
                                      /\ Chars(i, n) <= 100
                   \/ /\ \E i \in 1..n : r[i] \in {"Thank_you", "thank_you"}
                      /\ Chars(1, n) - lead - trail < 200)

\* A reply of a sentence, the marker in capitals and blank space ends the
\* conversation.
C32_Witness ==
    /\ closing.result = TRUE
    /\ closing.response = <<"sentence", "END_MARKER", "blank">>

\* C33: once the stored status of the call is completed or failed, no step
\* changes it.
C33_TerminalStatusStays ==
    [][call.status \in {"completed", "failed"}
       => call'.status = call.status]_vars

\* C34: after a turn, the history kept for the next one holds no system
\* message, and the context the turn sent for completion holds exactly one,
\* as its first message.
C34_OneSystemMessage ==
    Sent => /\ \A i \in 1..Len(history) : history[i].role # "system"
            /\ {i \in 1..Len(full_context) :
                   full_context[i].role = "system"} = {1}

\* C35: no thread classifies a chunk that is already stored as processed:
\* every chunk is classified, and the call's highest risk updated for it,
\* at most once.
C35_ClassifiedAtMostOnce ==
    [][\A t \in RiskThreads :
           (rst[t].pc = "assess" /\ rst'[t].pc = "update_get")
           => ~chunks[rst[t].chunk].risk_processed]_vars

\* C36: a chunk with response_played set is also processed and has a
\* response_audio_url, and the chunk of a notification that got no audio
\* reference has neither processed nor response_played set.
C36_PlayedImpliesProcessed ==
    /\ \A i \in 1..Len(chunks) :
           chunks[i].response_played
           => chunks[i].processed /\ chunks[i].response_audio_url # NULL
    /\ \A h \in Handlers :
           (hst[h].pc = "done" /\ hst[h].error = NULL
            /\ hst[h].chunk # 0 /\ hst[h].audio = NULL)
           => /\ ~chunks[hst[h].chunk].processed
              /\ ~chunks[hst[h].chunk].response_played

C36_Witness ==
    /\ \E i \in 1..Len(chunks) : chunks[i].response_played
    /\ \E h \in Handlers :
           /\ hst[h].pc = "done" /\ hst[h].error = NULL
           /\ hst[h].chunk # 0 /\ hst[h].audio = NULL

\* C37: a segment with a non-empty transcription (query_llm was called for
\* it) has its text appended to the call's transcription once and its turn
\* stored in the conversation state, whatever the synthesis and the wait
\* for the output file come to.
C37_TurnRecorded ==
    [][\A h \in Handlers :
           (hst[h].pc = "sarvam" /\ hst'[h].pc = "respond" /\ hst'[h].llm)
           => /\ call'.transcription = call.transcription + 1
              /\ call'.conversation_state = hst'[h].conversation]_vars

\* C38: a run of alert_emergency_contacts attempts each contact of the
\* configured list once and nothing else: the rows written by
\* handle_high_risk_call or by an earlier run are not among the contacts it
\* calls, so a later run attempts no more contacts than the one before.
C38_AttemptsDoNotGrow ==
    [][nAlerts' # nAlerts
       => /\ alert_results'.contacts_attempted = Len(SampleContacts)
          /\ nAlerts >= 1 => alert_results'.contacts_attempted
                               <= alert_results.contacts_attempted]_vars

\* C39: in what alert_emergency_contacts returns for a high or critical
\* level, contacts_attempted = contacts_successful + contacts_failed,
\* alerts_sent has contacts_successful entries and errors has
\* contacts_failed entries.
C39_CountersAgree ==
    /\ alert_results.contacts_attempted
         = alert_results.contacts_successful + alert_results.contacts_failed
    /\ Len(alert_results.alerts_sent) = alert_results.contacts_successful
    /\ Len(alert_results.errors) = alert_results.contacts_failed

C39_Witness ==
    /\ nAlerts >= 1
    /\ alert_results.contacts_successful >= 2
    /\ alert_results.contacts_failed >= 2

====
